---- MODULE Spec2Model ----
(***************************************************************************)
(* Model of the document-to-questions pipeline of                          *)
(* src/app/api/generate/route.ts (first revision in the file, lines 1-306):*)
(* the POST handler with its time budget, model fallback and               *)
(* post-processing, and the chunker chunkText.                             *)
(*                                                                         *)
(* Strings are sequences of one-character strings, so that trim,           *)
(* toLowerCase, includes, slice and split are computed, not assumed.       *)
(***************************************************************************)
EXTENDS Integers, Sequences, FiniteSets, TLC

VARIABLES
    pc,            \* position of the POST handler
    file,          \* form field 'file' (its name's extension, or "none")
    countField,    \* form field 'count' as sent
    requestedModel,\* form field 'model'
    envMaxChunks,  \* process.env.MAX_CHUNKS / VERCEL default, already a number
    envQuestionCap,\* process.env.QUESTION_CAP (or its default 10)
    elapsed,       \* Date.now() - start, in ms
    numChunks,     \* chunks.length
    idx,           \* number of chunks of chunksToProcess already handled
    allQuestions,  \* allQuestions
    modelInUse,    \* modelInUse
    fellBack,      \* fellBack
    callLog,       \* history: every openai.responses.create issued
    extracted,     \* history: extractTextFromFile was started
    response,      \* the NextResponse returned
    \* ---- chunker (chunkText) loop state ----
    cpc,           \* position of chunkText
    cSrc,          \* argument src
    cMax,          \* argument maxChars
    cOverlap,      \* argument overlap
    cParts,        \* parts still to visit
    cCur,          \* cur
    cChunks,       \* chunks
    \* ---- repeated-line step of stripAdministrativeSections ----
    fpc,           \* position of the loop of lines 56-64
    fLines,        \* the lines the document is made of
    fIn,           \* history: the lines of filtered.split('\n') visited so far
    counts,        \* counts
    kept,          \* kept
    keptIdx        \* history: the positions of the visited lines that were kept

reqVars == <<pc, file, countField, requestedModel, envMaxChunks, envQuestionCap,
             elapsed, numChunks, idx, allQuestions, modelInUse, fellBack,
             callLog, extracted, response>>
chunkVars == <<cpc, cSrc, cMax, cOverlap, cParts, cCur, cChunks>>
filterVars == <<fpc, fLines, fIn, counts, kept, keptIdx>>
vars == <<reqVars, chunkVars, filterVars>>

\* new Map()
EmptyMap == [k \in {} |-> 0]

FilterIdle ==
    /\ fpc = "idle" /\ fLines = {} /\ fIn = <<>> /\ counts = EmptyMap
    /\ kept = <<>> /\ keptIdx = {}

(***************************************************************************)
(* Strings                                                                 *)
(***************************************************************************)
Uppers == <<"A","B","C","D","E","F","G","H","I","J","K","L","M",
            "N","O","P","Q","R","S","T","U","V","W","X","Y","Z">>
Lowers == <<"a","b","c","d","e","f","g","h","i","j","k","l","m",
            "n","o","p","q","r","s","t","u","v","w","x","y","z">>

UpperSet == { Uppers[i] : i \in 1..26 }
LowerOf == [c \in UpperSet |-> Lowers[CHOOSE i \in 1..26 : Uppers[i] = c]]

LowerChar(c) == IF c \in UpperSet THEN LowerOf[c] ELSE c

\* String.prototype.toLowerCase
RECURSIVE ToLower(_)
ToLower(s) == IF s = <<>> THEN <<>> ELSE <<LowerChar(Head(s))>> \o ToLower(Tail(s))

\* the characters \s matches and trim removes
IsSpace(c) == c \in {" ", "\n", "\t"}

RECURSIVE TrimLeft(_)
TrimLeft(s) ==
    IF s = <<>> THEN <<>>
    ELSE IF IsSpace(Head(s)) THEN TrimLeft(Tail(s)) ELSE s

RECURSIVE TrimRight(_)
TrimRight(s) ==
    IF s = <<>> THEN <<>>
    ELSE IF IsSpace(s[Len(s)]) THEN TrimRight(SubSeq(s, 1, Len(s) - 1)) ELSE s

\* String.prototype.trim
Trim(s) == TrimRight(TrimLeft(s))

\* String.prototype.includes
Includes(hay, needle) ==
    \E i \in 1..(Len(hay) - Len(needle) + 1) :
        SubSeq(hay, i, i + Len(needle) - 1) = needle

\* Array.prototype.join(' ')
RECURSIVE JoinSpace(_)
JoinSpace(a) ==
    IF a = <<>> THEN <<>>
    ELSE IF Len(a) = 1 THEN a[1]
    ELSE a[1] \o <<" ">> \o JoinSpace(Tail(a))

\* s.slice(-n) for n >= 0  (slice(-0) is slice(0): the whole string)
SliceLast(s, n) ==
    IF n = 0 THEN s
    ELSE IF n >= Len(s) THEN s
    ELSE SubSeq(s, Len(s) - n + 1, Len(s))

\* s.slice(i, i + n) with 0-based i
SliceFrom(s, i, n) ==
    SubSeq(s, i + 1, IF i + n > Len(s) THEN Len(s) ELSE i + n)

Min(a, b) == IF a <= b THEN a ELSE b
Max(a, b) == IF a >= b THEN a ELSE b

(***************************************************************************)
(* JSON values a model call can put in a question list                     *)
(***************************************************************************)
\* a JSON value: t is its type, s its text (string / digits), a its elements
Undefined == [t |-> "undefined", s |-> <<>>, a |-> <<>>]
JStr(s)   == [t |-> "string", s |-> s, a |-> <<>>]
JNum(s)   == [t |-> "number", s |-> s, a |-> <<>>]
JArr(a)   == [t |-> "array",  s |-> <<>>, a |-> a]

\* JavaScript truthiness of a JSON value
Truthy(v) ==
    CASE v.t = "undefined" -> FALSE
      [] v.t = "string"    -> v.s # <<>>
      [] v.t = "number"    -> v.s # <<"0">>
      [] OTHER             -> TRUE

\* an entry of a question list: null or an object
NullEntry == [t |-> "null", question |-> Undefined, options |-> Undefined, correctIndex |-> 0]
Entry(q, o, c) == [t |-> "object", question |-> q, options |-> o, correctIndex |-> c]

Opts(a, b, c, d) == JArr(<<a, b, c, d>>)

qA     == Entry(JStr(<<"Q","1">>), Opts(<<"a">>, <<"b">>, <<"c">>, <<"d">>), 0)
qA2    == Entry(JStr(<<" ","Q","1"," ">>), Opts(<<"b">>, <<"a">>, <<"c">>, <<"d">>), 1)
qAadm  == Entry(JStr(<<"Q","1">>), Opts(<<"C","P","E">>, <<"b">>, <<"c">>, <<"d">>), 2)
qB     == Entry(JStr(<<"Q","2">>), Opts(<<"a">>, <<"b">>, <<"c">>, <<"d">>), 3)
qBlank == Entry(JStr(<<" ">>), Opts(<<"a">>, <<"b">>, <<"c">>, <<"d">>), 0)
qNoOpt == Entry(JStr(<<"Q","3">>), Undefined, 0)
qNum   == Entry(JNum(<<"5">>), Opts(<<"a">>, <<"b">>, <<"c">>, <<"d">>), 0)
qStrOpt == Entry(JStr(<<"Q","4">>), JStr(<<"a","b","c","d">>), 0)
qNasba == Entry(JStr(<<"N","a","s","b","a","?">>), Opts(<<"a">>, <<"b">>, <<"c">>, <<"d">>), 1)

(***************************************************************************)
(* Post-processing: isAdminQuestion and dedupeAndLimit                     *)
(***************************************************************************)
BANNED_TOKENS_IN_STEM == {
    <<"c","r","e","d","i","t">>,
    <<"c","r","e","d","i","t","s">>,
    <<"c","p","e">>,
    <<"c","e"," ","h","o","u","r","s">>,
    <<"c","o","u","r","s","e"," ","n","u","m","b","e","r">>,
    <<"c","o","u","r","s","e"," ","i","d">>,
    <<"p","r","o","v","i","d","e","r">>,
    <<"n","a","s","b","a">>,
    <<"a","p","p","r","o","v","e","d">>,
    <<"s","p","o","n","s","o","r">>,
    <<"a","u","t","h","o","r">>,
    <<"c","o","n","t","a","c","t">>,
    <<"s","u","p","p","o","r","t">> }

\* (q?.question || '')  as the string it concatenates to
QuestionOrEmpty(q) == IF Truthy(q.question) THEN q.question.s ELSE <<>>

\* (q?.options || []).join(' ') throws a TypeError when options is a truthy
\* value that is not an array
JoinThrows(q) == Truthy(q.options) /\ q.options.t # "array"

OptionsJoined(q) == IF Truthy(q.options) THEN JoinSpace(q.options.a) ELSE <<>>

\* variant: the haystack is not lower-cased
Hay_CaseSensitive(q) == QuestionOrEmpty(q) \o <<" ">> \o OptionsJoined(q)

Hay(q) == ToLower(QuestionOrEmpty(q) \o <<" ">> \o OptionsJoined(q))

\* BANNED_TOKENS_IN_STEM.some(t => hay.includes(t))
SomeToken(hay) == \E t \in BANNED_TOKENS_IN_STEM : Includes(hay, t)

isAdminQuestion(q) == SomeToken(Hay(q))

\* (q?.question || '').trim() throws a TypeError when question is a truthy
\* value that is not a string
TrimThrows(q) == Truthy(q.question) /\ q.question.t # "string"

KeyOf(q) == IF Truthy(q.question) THEN Trim(q.question.s) ELSE <<>>

\* allQuestions.filter(q => !isAdminQuestion(q))
RECURSIVE FilterAdmin(_)
FilterAdmin(qs) ==
    IF qs = <<>> THEN <<>>
    ELSE IF isAdminQuestion(Head(qs)) THEN FilterAdmin(Tail(qs))
         ELSE <<Head(qs)>> \o FilterAdmin(Tail(qs))

\* variant: map.set without the map.has test, so the last entry of a key wins
RECURSIVE UniqueFrom_LastWins(_, _)
UniqueFrom_LastWins(qs, seen) ==
    IF qs = <<>> THEN <<>>
    ELSE LET k == KeyOf(Head(qs))
             last == CHOOSE i \in 1..Len(qs) :
                        /\ KeyOf(qs[i]) = k
                        /\ \A j \in (i + 1)..Len(qs) : KeyOf(qs[j]) # k
         IN IF k # <<>> /\ k \notin seen
            THEN <<qs[last]>> \o UniqueFrom_LastWins(Tail(qs), seen \cup {k})
            ELSE UniqueFrom_LastWins(Tail(qs), seen)

\* Array.from(map.values()): first entry per non-empty key, insertion order
RECURSIVE UniqueFrom(_, _)
UniqueFrom(qs, seen) ==
    IF qs = <<>> THEN <<>>
    ELSE LET k == KeyOf(Head(qs)) IN
         IF k # <<>> /\ k \notin seen
         THEN <<Head(qs)>> \o UniqueFrom(Tail(qs), seen \cup {k})
         ELSE UniqueFrom(Tail(qs), seen)

Unique(qs) == UniqueFrom(qs, {})

\* [unique[i], unique[j]] = [unique[j], unique[i]]  (1-based here)
Swap(u, i, j) == [[u EXCEPT ![i] = u[j]] EXCEPT ![j] = u[i]]

\* the Fisher-Yates loop from 0-based index i down to 1, with every value
\* Math.floor(Math.random() * (i + 1)) can take
RECURSIVE Shuffles(_, _)
Shuffles(u, i) ==
    IF i <= 0 THEN {u}
    ELSE UNION { Shuffles(Swap(u, i + 1, j + 1), i - 1) : j \in 0..i }

\* every value dedupeAndLimit(questions, limit) can return
\* variant: unique.slice(0, limit - 1)
ShuffledAndCut_OneShort(unique, limit) ==
    { SubSeq(p, 1, Min(limit - 1, Len(p))) : p \in Shuffles(unique, Len(unique) - 1) }

ShuffledAndCut(unique, limit) ==
    { SubSeq(p, 1, Min(limit, Len(p))) : p \in Shuffles(unique, Len(unique) - 1) }

dedupeAndLimit(qs, limit) == ShuffledAndCut(Unique(qs), limit)

\* lines 299-300 throw when a join or a trim meets an ill-typed field
SomeTrimThrows(fs) == \E i \in 1..Len(fs) : TrimThrows(fs[i])

PostProcessThrows(qs) ==
    \/ \E i \in 1..Len(qs) : JoinThrows(qs[i])
    \/ SomeTrimThrows(FilterAdmin(qs))

(***************************************************************************)
(* Response parser                                                         *)
(***************************************************************************)
\* what JSON.parse can give: qkind tells what parsed?.questions is
Failed   == [ok |-> FALSE, t |-> "none",   qkind |-> "absent", list |-> <<>>]
PNull    == [ok |-> TRUE,  t |-> "null",   qkind |-> "absent", list |-> <<>>]
PNumber  == [ok |-> TRUE,  t |-> "number", qkind |-> "absent", list |-> <<>>]
PNoList  == [ok |-> TRUE,  t |-> "object", qkind |-> "absent", list |-> <<>>]
PNotArr  == [ok |-> TRUE,  t |-> "object", qkind |-> "string", list |-> <<>>]
PList(l) == [ok |-> TRUE,  t |-> "object", qkind |-> "array",  list |-> l]

\* a text is described by what each of the three strategies finds in it:
\* JSON.parse(text), JSON.parse of the ```json block, JSON.parse of the
\* span from the first { to the last }  (Failed: no match or a parse error)
Text(d, f, b) == [direct |-> d, fenced |-> f, braces |-> b]

\* null stands for both "nothing parsed" and a parsed JSON null
parseJsonFromText(text) ==
    IF text.direct.ok THEN text.direct
    ELSE IF text.fenced.ok THEN text.fenced
    ELSE IF text.braces.ok THEN text.braces
    ELSE PNull

\* lines 294-295: parsed ?? { questions: [] }, then the pushed entries
Pushed(text) ==
    LET p == parseJsonFromText(text)
        parsed == IF p.t = "null" THEN PList(<<>>) ELSE p
    IN IF parsed.qkind = "array" THEN parsed.list ELSE <<>>

ModelTexts == {
    Text(Failed, Failed, Failed),                        \* "no json here", ''
    Text(PNull, Failed, Failed),                         \* null
    Text(PNumber, Failed, Failed),                       \* 5
    Text(PNoList, Failed, PNoList),                      \* {}
    Text(PNotArr, Failed, PNotArr),                      \* {"questions":"x"}
    Text(PList(<<>>), Failed, PList(<<>>)),              \* {"questions":[]}
    Text(PList(<<qA, NullEntry, qBlank, qB>>), Failed, PList(<<qA, NullEntry, qBlank, qB>>)),
    Text(Failed, PList(<<qAadm, qA2, qNasba, qNoOpt>>),
                 PList(<<qAadm, qA2, qNasba, qNoOpt>>)),                         \* fenced
    Text(PList(<<qNum>>), Failed, PList(<<qNum>>)),
    Text(Failed, Failed, PList(<<qStrOpt>>)) }

(***************************************************************************)
(* The POST handler                                                        *)
(***************************************************************************)
TIME_BUDGET_MS == 50000
SAFETY_MARGIN_MS == 8000
EXTRACT_TIMEOUT_MS == 12000
OPENAI_TIMEOUT_MS == 25000
DEFAULT_COUNT == 10

allowedModels == {"gpt-5-mini", "gpt-4o-mini", "o4-mini"}
defaultModel == "gpt-4o-mini"

\* bounds of the explored inputs
MaxDocChunks == 3
Files == {"none", "course.pdf", "course.txt"}
CountFields == {"missing", "abc", "0", "-1", "1"}
RequestedModels == {"o4-mini", "gpt-3"}
MaxChunksSettings == {0, 3}
QuestionCapSettings == {2, 10}
ExtractDurations == {11000}
CallDurations == {1000, 25000}

\* Number(form.get('count') || 10): nan marks NaN
CountNumber(c) ==
    CASE c = "missing" -> [nan |-> FALSE, n |-> DEFAULT_COUNT]
      [] c = "abc"     -> [nan |-> TRUE,  n |-> 0]
      [] c = "0"       -> [nan |-> FALSE, n |-> 0]
      [] c = "-1"      -> [nan |-> FALSE, n |-> 0 - 1]
      [] c = "1"       -> [nan |-> FALSE, n |-> 1]

requestedCount == CountNumber(countField)

\* variant: only the falsy test, without requestedCount < 1
InvalidCount_FalsyOnly == requestedCount.nan \/ requestedCount.n = 0

\* !requestedCount || requestedCount < 1
InvalidCount == requestedCount.nan \/ requestedCount.n = 0 \/ requestedCount.n < 1

Supported(f) == f \in {"course.pdf", "course.docx"}

timeLeft == TIME_BUDGET_MS - elapsed

maxChunks == Max(1, envMaxChunks)
\* variant: the chunk list is not sliced to maxChunks
chunksToProcess_Unsliced == numChunks

chunksToProcess == Min(numChunks, maxChunks)
QUESTION_CAP == Max(1, envQuestionCap)
\* variant: the hard cap is not applied
desiredTotal_Uncapped == requestedCount.n

desiredTotal == Min(requestedCount.n, QUESTION_CAP)

\* Math.ceil(a / b) for a >= 0, b >= 1
CeilDiv(a, b) == (a + b - 1) \div b
perChunk == Max(1, CeilDiv(desiredTotal, Max(1, chunksToProcess)))

\* what the catch block of the model call sees of a failure
Err(status, accessMsg, kind) == [status |-> status, accessMsg |-> accessMsg, kind |-> kind]
AccessForbidden == Err(403, TRUE, "accessForbidden")
CallErrors == { AccessForbidden,
                Err(403, FALSE, "forbidden"),   \* 403 with another message
                Err(404, TRUE, "notfound"),     \* the message with another status
                Err(500, FALSE, "failure"),
                Err(0, FALSE, "timeout") }

\* status === 403 && /does not have access to model/i.test(message)
IsAccessForbidden(e) == e.status = 403 /\ e.accessMsg

\* a timed-out call lasts the whole per-call timeout
ErrDurations(e) == IF e.kind = "timeout" THEN {OPENAI_TIMEOUT_MS} ELSE CallDurations

NoResponse == [status |-> 0, error |-> "", modelUsed |-> "", questions |-> <<>>]
ErrorResponse(st, msg) == [status |-> st, error |-> msg, modelUsed |-> "", questions |-> <<>>]
OkResponse(m, qs) == [status |-> 200, error |-> "", modelUsed |-> m, questions |-> qs]

CallRecord(retry) ==
    [chunk |-> idx + 1, model |-> IF retry THEN defaultModel ELSE modelInUse,
     timeLeft |-> timeLeft, retry |-> retry, perChunk |-> perChunk,
     outcome |-> "pending"]

\* history: how the call issued last ended ("ok" or the failure's kind)
Ended(log, outcome) == [log EXCEPT ![Len(log)].outcome = outcome]

ChunkIdle ==
    /\ cpc = "idle" /\ cSrc = <<>> /\ cMax = 0 /\ cOverlap = 0
    /\ cParts = <<>> /\ cCur = <<>> /\ cChunks = <<>>

Init ==
    /\ pc = "start"
    /\ file \in Files
    /\ countField \in CountFields
    /\ requestedModel \in RequestedModels
    /\ envMaxChunks \in MaxChunksSettings
    /\ envQuestionCap \in QuestionCapSettings
    /\ elapsed = 0
    /\ numChunks = 0
    /\ idx = 0
    /\ allQuestions = <<>>
    /\ modelInUse = ""
    /\ fellBack = FALSE
    /\ callLog = <<>>
    /\ extracted = FALSE
    /\ response = NoResponse
    /\ ChunkIdle
    /\ FilterIdle

Respond(r) ==
    /\ response' = r
    /\ pc' = "done"

\* line 175
RejectNoFile ==
    /\ pc = "start"
    /\ file = "none"
    /\ Respond(ErrorResponse(400, "No file uploaded"))
    /\ UNCHANGED <<file, countField, requestedModel, envMaxChunks, envQuestionCap,
                   elapsed, numChunks, idx, allQuestions, modelInUse, fellBack,
                   callLog, extracted, chunkVars, filterVars>>

\* lines 176-178
RejectCount ==
    /\ pc = "start"
    /\ file # "none"
    /\ InvalidCount
    /\ Respond(ErrorResponse(400, "Invalid count"))
    /\ UNCHANGED <<file, countField, requestedModel, envMaxChunks, envQuestionCap,
                   elapsed, numChunks, idx, allQuestions, modelInUse, fellBack,
                   callLog, extracted, chunkVars, filterVars>>

\* lines 181-186: the clock starts and extraction is awaited
StartExtraction ==
    /\ pc = "start"
    /\ file # "none"
    /\ ~InvalidCount
    /\ pc' = "extract"
    /\ extracted' = TRUE
    /\ UNCHANGED <<file, countField, requestedModel, envMaxChunks, envQuestionCap,
                   elapsed, numChunks, idx, allQuestions, modelInUse, fellBack,
                   callLog, response, chunkVars, filterVars>>

\* line 28: the throw of extractTextFromFile reaches the catch of line 302
ExtractUnsupported ==
    /\ pc = "extract"
    /\ ~Supported(file)
    /\ Respond(ErrorResponse(500, "Unsupported file type. Upload .pdf or .docx"))
    /\ UNCHANGED <<file, countField, requestedModel, envMaxChunks, envQuestionCap,
                   elapsed, numChunks, idx, allQuestions, modelInUse, fellBack,
                   callLog, extracted, chunkVars, filterVars>>

\* the parser rejects the document, or withTimeout rejects after 12s
ExtractFails ==
    /\ pc = "extract"
    /\ Supported(file)
    /\ \E kind \in {"timeout", "failure"} :
         \E d \in (IF kind = "timeout" THEN {EXTRACT_TIMEOUT_MS} ELSE ExtractDurations) :
            /\ elapsed' = elapsed + d
            /\ Respond(ErrorResponse(500, IF kind = "timeout"
                                          THEN "text extraction timeout after 12000ms"
                                          ELSE "parse failure"))
    /\ UNCHANGED <<file, countField, requestedModel, envMaxChunks, envQuestionCap,
                   numChunks, idx, allQuestions, modelInUse, fellBack,
                   callLog, extracted, chunkVars, filterVars>>

\* line 187
ExtractEmpty ==
    /\ pc = "extract"
    /\ Supported(file)
    /\ \E d \in ExtractDurations : elapsed' = elapsed + d
    /\ Respond(ErrorResponse(400, "Empty document"))
    /\ UNCHANGED <<file, countField, requestedModel, envMaxChunks, envQuestionCap,
                   numChunks, idx, allQuestions, modelInUse, fellBack,
                   callLog, extracted, chunkVars, filterVars>>

\* variant: the requested identifier is used without the allowlist test
ExtractOk_AnyModel ==
    /\ pc = "extract"
    /\ Supported(file)
    /\ \E d \in ExtractDurations : elapsed' = elapsed + d
    /\ \E n \in 0..MaxDocChunks : numChunks' = n
    /\ idx' = 0
    /\ allQuestions' = <<>>
    /\ modelInUse' = requestedModel
    /\ fellBack' = FALSE
    /\ pc' = "loop"
    /\ UNCHANGED <<file, countField, requestedModel, envMaxChunks, envQuestionCap,
                   callLog, extracted, response, chunkVars, filterVars>>

\* lines 187-247: text extracted, cleaned and chunked (n chunks; none when
\* the cleaned text is blank); the loop state is set up
ExtractOk ==
    /\ pc = "extract"
    /\ Supported(file)
    /\ \E d \in ExtractDurations : elapsed' = elapsed + d
    /\ \E n \in 0..MaxDocChunks : numChunks' = n
    /\ idx' = 0
    /\ allQuestions' = <<>>
    /\ modelInUse' = IF requestedModel \in allowedModels THEN requestedModel ELSE defaultModel
    /\ fellBack' = FALSE
    /\ pc' = "loop"
    /\ UNCHANGED <<file, countField, requestedModel, envMaxChunks, envQuestionCap,
                   callLog, extracted, response, chunkVars, filterVars>>

\* lines 249-253 and 279: the budget check passes and the call is issued
IssueCall ==
    /\ pc = "loop"
    /\ idx < chunksToProcess
    /\ ~(timeLeft < SAFETY_MARGIN_MS)
    /\ callLog' = Append(callLog, CallRecord(FALSE))
    /\ pc' = "call"
    /\ UNCHANGED <<file, countField, requestedModel, envMaxChunks, envQuestionCap,
                   elapsed, numChunks, idx, allQuestions, modelInUse, fellBack,
                   extracted, response, chunkVars, filterVars>>

LoopEnds == idx >= chunksToProcess \/ timeLeft < SAFETY_MARGIN_MS

\* lines 298-301: the loop ended or broke; filter, dedupe, shuffle, cap
FinishOk ==
    /\ pc = "loop"
    /\ LoopEnds
    /\ ~PostProcessThrows(allQuestions)
    /\ \E qs \in dedupeAndLimit(FilterAdmin(allQuestions), desiredTotal) :
          Respond(OkResponse(modelInUse, qs))
    /\ UNCHANGED <<file, countField, requestedModel, envMaxChunks, envQuestionCap,
                   elapsed, numChunks, idx, allQuestions, modelInUse, fellBack,
                   callLog, extracted, chunkVars, filterVars>>

\* lines 299-300 throw a TypeError, caught at line 302
FinishThrows ==
    /\ pc = "loop"
    /\ LoopEnds
    /\ PostProcessThrows(allQuestions)
    /\ Respond(ErrorResponse(500, "TypeError"))
    /\ UNCHANGED <<file, countField, requestedModel, envMaxChunks, envQuestionCap,
                   elapsed, numChunks, idx, allQuestions, modelInUse, fellBack,
                   callLog, extracted, chunkVars, filterVars>>

\* lines 293-295 after a call that returned
Collect(text) ==
    /\ allQuestions' = allQuestions \o Pushed(text)
    /\ idx' = idx + 1
    /\ pc' = "loop"

\* line 279 resolves
CallSucceeds ==
    /\ pc = "call"
    /\ \E d \in CallDurations : elapsed' = elapsed + d
    /\ \E text \in ModelTexts : Collect(text)
    /\ callLog' = Ended(callLog, "ok")
    /\ UNCHANGED <<file, countField, requestedModel, envMaxChunks, envQuestionCap,
                   numChunks, modelInUse, fellBack, extracted, response,
                   chunkVars, filterVars>>

\* variant: the fallback is taken without looking at fellBack
TakesFallback_IgnoresFlag(e) == IsAccessForbidden(e)

\* the catch of line 280 takes the fallback or rethrows
TakesFallback(e) == ~fellBack /\ IsAccessForbidden(e)

\* lines 283-287: the first access-forbidden failure; the retry is issued
CallFallsBack ==
    /\ pc = "call"
    /\ \E e \in CallErrors :
         /\ TakesFallback(e)
         /\ \E d \in ErrDurations(e) : elapsed' = elapsed + d
    /\ modelInUse' = defaultModel
    /\ fellBack' = TRUE
    /\ callLog' = Append(Ended(callLog, AccessForbidden.kind),
                          [CallRecord(TRUE) EXCEPT !.timeLeft = TIME_BUDGET_MS - elapsed'])
    /\ pc' = "retry"
    /\ UNCHANGED <<file, countField, requestedModel, envMaxChunks, envQuestionCap,
                   numChunks, idx, allQuestions, extracted, response, chunkVars, filterVars>>

\* variant: a failed call is swallowed and the loop goes on to the next chunk
CallFails_SkipsChunk ==
    /\ pc = "call"
    /\ \E e \in CallErrors :
         /\ ~TakesFallback(e)
         /\ \E d \in ErrDurations(e) : elapsed' = elapsed + d
         /\ callLog' = Ended(callLog, e.kind)
    /\ idx' = idx + 1
    /\ pc' = "loop"
    /\ UNCHANGED <<file, countField, requestedModel, envMaxChunks, envQuestionCap,
                   numChunks, allQuestions, modelInUse, fellBack, response,
                   extracted, chunkVars, filterVars>>

\* line 289: throw err, caught at line 302
CallFails ==
    /\ pc = "call"
    /\ \E e \in CallErrors :
         /\ ~TakesFallback(e)
         /\ \E d \in ErrDurations(e) : elapsed' = elapsed + d
         /\ Respond(ErrorResponse(500, e.kind))
         /\ callLog' = Ended(callLog, e.kind)
    /\ UNCHANGED <<file, countField, requestedModel, envMaxChunks, envQuestionCap,
                   numChunks, idx, allQuestions, modelInUse, fellBack,
                   extracted, chunkVars, filterVars>>

\* line 287 resolves
RetrySucceeds ==
    /\ pc = "retry"
    /\ \E d \in CallDurations : elapsed' = elapsed + d
    /\ \E text \in ModelTexts : Collect(text)
    /\ callLog' = Ended(callLog, "ok")
    /\ UNCHANGED <<file, countField, requestedModel, envMaxChunks, envQuestionCap,
                   numChunks, modelInUse, fellBack, extracted, response,
                   chunkVars, filterVars>>

\* line 287 rejects inside the catch block: nothing catches it before line 302
RetryFails ==
    /\ pc = "retry"
    /\ \E e \in CallErrors :
         /\ \E d \in ErrDurations(e) : elapsed' = elapsed + d
         /\ Respond(ErrorResponse(500, e.kind))
         /\ callLog' = Ended(callLog, e.kind)
    /\ UNCHANGED <<file, countField, requestedModel, envMaxChunks, envQuestionCap,
                   numChunks, idx, allQuestions, modelInUse, fellBack,
                   extracted, chunkVars, filterVars>>

Next ==
    \/ RejectNoFile
    \/ RejectCount
    \/ StartExtraction
    \/ ExtractUnsupported
    \/ ExtractFails
    \/ ExtractEmpty
    \/ ExtractOk
    \/ IssueCall
    \/ FinishOk
    \/ FinishThrows
    \/ CallSucceeds
    \/ CallFallsBack
    \/ CallFails
    \/ RetrySucceeds
    \/ RetryFails

Spec == Init /\ [][Next]_vars

TypeOK ==
    /\ pc \in {"start", "extract", "loop", "call", "retry", "done", "idle"}
    /\ idx \in 0..MaxDocChunks
    /\ fellBack \in BOOLEAN

(***************************************************************************)
(* Properties of the POST handler                                          *)
(***************************************************************************)
Retries == { i \in 1..Len(callLog) : callLog[i].retry }
Failure(c) == c.outcome \notin {"pending", "ok"}

\* the failure the catch block recovers from: access-forbidden with no
\* fallback taken by an earlier call
FirstForbidden(i) ==
    /\ callLog[i].outcome = "accessForbidden"
    /\ \A j \in 1..i : ~callLog[j].retry

\* C1: within one request at most one fallback retry is issued: the first
\* access-forbidden failure is followed by exactly one retry of the same
\* chunk with the default model, a retry only ever follows such a failure,
\* and every other failure is the last call of the request, which ends
\* with an error.
C1_SingleFallback ==
    /\ Cardinality(Retries) <= 1
    /\ \A i \in 1..Len(callLog) :
         /\ FirstForbidden(i) =>
               /\ i < Len(callLog)
               /\ callLog[i + 1].retry
               /\ callLog[i + 1].model = "gpt-4o-mini"
               /\ callLog[i + 1].chunk = callLog[i].chunk
         /\ callLog[i].retry => i > 1 /\ FirstForbidden(i - 1)
         /\ (Failure(callLog[i]) /\ ~FirstForbidden(i)) =>
               /\ i = Len(callLog)
               /\ pc = "done"
               /\ response.status >= 400

\* a fallback happened, later chunks were called, and a second
\* access-forbidden failure ended the request
C1_Witness ==
    /\ pc = "done"
    /\ Len(callLog) >= 3
    /\ \E i \in Retries : i < Len(callLog)
    /\ callLog[Len(callLog)].outcome = "accessForbidden"
    /\ ~callLog[Len(callLog)].retry

\* C7: a model call that times out or fails, other than the first
\* access-forbidden one, is fatal: it is the last call, the chunk is not
\* skipped, and the response is a 500 error object without questions.
C7_FailureIsFatal ==
    \A i \in 1..Len(callLog) :
        (Failure(callLog[i]) /\ ~FirstForbidden(i)) =>
            /\ i = Len(callLog)
            /\ pc = "done"
            /\ idx = callLog[i].chunk - 1
            /\ response.status = 500
            /\ response.error # ""
            /\ response.questions = <<>>
            /\ response.modelUsed = ""

\* a call timed out after earlier chunks had contributed questions
C7_Witness ==
    /\ pc = "done"
    /\ callLog # <<>>
    /\ callLog[Len(callLog)].outcome = "timeout"
    /\ Unique(FilterAdmin(allQuestions)) # <<>>
    /\ ~PostProcessThrows(allQuestions)
    /\ response.status = 500

\* every call so far returned, or was the recovered access-forbidden one
NoFatalCall == \A i \in 1..Len(callLog) : callLog[i].outcome = "ok" \/ FirstForbidden(i)

\* C2: malformed model output never aborts the request: when every model
\* call returned a text, whatever the text, the request ends with a success
\* response.
C2_MalformedNeverAborts ==
    (pc = "done" /\ callLog # <<>> /\ NoFatalCall) => response.status = 200

\* C3: a successful response carries at most min(requested count, hard cap)
\* questions.
C3_ResultWithinCap ==
    response.status = 200 =>
        Len(response.questions) <= Min(requestedCount.n, QUESTION_CAP)

\* more unique candidates were collected over several calls than returned
C3_Witness ==
    /\ response.status = 200
    /\ Len(callLog) >= 2
    /\ Len(response.questions) = Min(requestedCount.n, QUESTION_CAP)
    /\ Len(Unique(FilterAdmin(allQuestions))) > Len(response.questions)

DistinctKeys(qs) ==
    \A i, j \in 1..Len(qs) : i # j => KeyOf(qs[i]) # KeyOf(qs[j])

IsFirstWithKey(q, qs) ==
    \E i \in 1..Len(qs) :
        /\ qs[i] = q
        /\ \A j \in 1..(i - 1) : KeyOf(qs[j]) # KeyOf(q)

\* C4 as claimed: no two returned questions share their trimmed text, and
\* each returned question is the first accumulated candidate with its
\* trimmed text.
C4_FirstAccumulatedWins ==
    response.status = 200 =>
        /\ DistinctKeys(response.questions)
        /\ \A i \in 1..Len(response.questions) :
              IsFirstWithKey(response.questions[i], allQuestions)

\* C4 amended: no two returned questions share their trimmed text, and each
\* returned question is the first candidate with its trimmed text among the
\* accumulated candidates that pass the administrative filter.
C4_FirstUnfilteredWins ==
    response.status = 200 =>
        /\ DistinctKeys(response.questions)
        /\ \A i \in 1..Len(response.questions) :
              IsFirstWithKey(response.questions[i], FilterAdmin(allQuestions))

\* a returned question had a later candidate with the same trimmed text and
\* other options, which was discarded
C4_Witness ==
    /\ response.status = 200
    /\ \E i \in 1..Len(response.questions) :
         \E j, k \in 1..Len(allQuestions) :
            /\ j < k
            /\ allQuestions[j] = response.questions[i]
            /\ KeyOf(allQuestions[k]) = KeyOf(allQuestions[j])
            /\ allQuestions[k].options # allQuestions[j].options
            /\ ~isAdminQuestion(allQuestions[k])

\* the loop broke on the budget check with chunks left
BrokeOnBudget ==
    /\ pc = "done"
    /\ modelInUse # ""
    /\ NoFatalCall
    /\ idx < chunksToProcess

\* C5: when the budget check before a chunk finds less than the safety
\* margin, that chunk and the later ones get no call and the request ends
\* with a success response, never an error.
C5_BreakReturnsSuccess ==
    BrokeOnBudget =>
        /\ \A i \in 1..Len(callLog) : callLog[i].chunk <= idx
        /\ response.status = 200

\* C6: every model call, the fallback retry included, is issued with at
\* least the safety margin of the budget remaining.
C6_CallsWithinBudget ==
    \A i \in 1..Len(callLog) : callLog[i].timeLeft >= SAFETY_MARGIN_MS

NotPositive(c) == CountNumber(c).nan \/ CountNumber(c).n < 1

\* C8 as claimed: a missing file, a missing or non-positive count and an
\* unsupported file are all answered with status 400, the first two before
\* any extraction or model call.
C8_InvalidInputIs400 ==
    /\ (file = "none" \/ countField = "missing" \/ NotPositive(countField)) =>
          /\ ~extracted
          /\ callLog = <<>>
          /\ pc = "done" => response.status = 400
    /\ (~Supported(file) /\ pc = "done") => response.status = 400

\* C8 amended: a missing file, or a count that is present and zero, negative
\* or not a number, is answered with status 400 before any extraction or
\* model call; a missing count is read as 10 and is not an error; an
\* unsupported file is found by the extraction and answered with status 500
\* before any model call.
C8_InvalidInputAmended ==
    /\ (file = "none" \/ (countField # "missing" /\ NotPositive(countField))) =>
          /\ ~extracted
          /\ callLog = <<>>
          /\ pc = "done" => response.status = 400
    /\ (file # "none" /\ countField = "missing") =>
          /\ requestedCount.n = 10
          /\ pc # "start" => extracted
          /\ response.error # "Invalid count"
    /\ (file # "none" /\ ~Supported(file) /\ ~NotPositive(countField)
          /\ countField # "missing" /\ pc = "done") =>
          /\ extracted
          /\ callLog = <<>>
          /\ response.status = 500

\* a negative count was rejected
C8_Witness ==
    /\ pc = "done"
    /\ file # "none"
    /\ countField = "-1"
    /\ response = ErrorResponse(400, "Invalid count")

(***************************************************************************)
(* The chunker chunkText, one loop iteration per step                      *)
(***************************************************************************)
\* bounds of the explored inputs
MaxSrcLen == 6
SrcAlphabet == {"a", "A", ".", " "}
MaxCharsChoices == {2, 5}
OverlapChoices == {0, 1}

RECURSIVE SeqsUpTo(_, _)
SeqsUpTo(S, n) ==
    IF n = 0 THEN {<<>>}
    ELSE LET shorter == SeqsUpTo(S, n - 1)
         IN shorter \cup { Append(t, c) : t \in { u \in shorter : Len(u) = n - 1 }, c \in S }

SrcTexts == SeqsUpTo(SrcAlphabet, MaxSrcLen)

\* length of the run of characters satisfying \s (resp. \n) at the head of s
RECURSIVE SpaceRun(_)
SpaceRun(s) == IF s # <<>> /\ IsSpace(Head(s)) THEN 1 + SpaceRun(Tail(s)) ELSE 0

RECURSIVE NewlineRun(_)
NewlineRun(s) == IF s # <<>> /\ Head(s) = "\n" THEN 1 + NewlineRun(Tail(s)) ELSE 0

Drop(s, n) == SubSeq(s, n + 1, Len(s))

\* src.replace(/\s+/g, ' ')
RECURSIVE CollapseSpaces(_)
CollapseSpaces(s) ==
    IF s = <<>> THEN <<>>
    ELSE IF IsSpace(Head(s)) THEN <<" ">> \o CollapseSpaces(Drop(s, SpaceRun(s)))
    ELSE <<Head(s)>> \o CollapseSpaces(Tail(s))

\* line 71
Normalize(src) == Trim(CollapseSpaces(src))

\* [A-Z(]
StartsSentence(c) == c \in UpperSet \/ c = "("

\* length of the match of /(?:\.\s+(?=[A-Z(]))|(?:\n{2,})/ at the head of s,
\* 0 when it does not match there
SeparatorAt(s) ==
    IF /\ Head(s) = "."
       /\ SpaceRun(Tail(s)) >= 1
       /\ Len(s) > 1 + SpaceRun(Tail(s))
       /\ StartsSentence(s[2 + SpaceRun(Tail(s))])
    THEN 1 + SpaceRun(Tail(s))
    ELSE IF NewlineRun(s) >= 2 THEN NewlineRun(s)
    ELSE 0

\* text.split(separator): part is the part being read
RECURSIVE SplitFrom(_, _)
SplitFrom(s, part) ==
    IF s = <<>> THEN <<part>>
    ELSE IF SeparatorAt(s) > 0 THEN <<part>> \o SplitFrom(Drop(s, SeparatorAt(s)), <<>>)
    ELSE SplitFrom(Tail(s), Append(part, Head(s)))

\* line 75
SplitParts(text) == SplitFrom(text, <<>>)

\* (tail ? tail + ' ' : '') + piece
WithTail(tail, piece) == (IF tail # <<>> THEN tail \o <<" ">> ELSE <<>>) \o piece

\* lines 91-99: the pieces of a hard split appended to chunks, from offset i
RECURSIVE HardSplit(_, _, _, _, _)
HardSplit(chunks, piece, i, maxChars, overlap) ==
    IF ~(i < Len(piece)) THEN chunks
    ELSE LET slice == SliceFrom(piece, i, maxChars)
             pushed == IF Len(chunks) > 0 /\ overlap > 0
                       THEN WithTail(SliceLast(chunks[Len(chunks)], overlap), slice)
                       ELSE slice
         IN HardSplit(Append(chunks, pushed), piece, i + maxChars, maxChars, overlap)

ReqIdle ==
    /\ pc = "idle" /\ file = "none" /\ countField = "missing" /\ requestedModel = ""
    /\ envMaxChunks = 0 /\ envQuestionCap = 0 /\ elapsed = 0 /\ numChunks = 0
    /\ idx = 0 /\ allQuestions = <<>> /\ modelInUse = "" /\ fellBack = FALSE
    /\ callLog = <<>> /\ extracted = FALSE /\ response = NoResponse

InitChunk ==
    /\ ReqIdle
    /\ FilterIdle
    /\ cpc = "start"
    /\ cSrc \in SrcTexts
    /\ cMax \in MaxCharsChoices
    /\ cOverlap \in OverlapChoices
    /\ cParts = <<>>
    /\ cCur = <<>>
    /\ cChunks = <<>>

\* lines 71-72: nothing is left after normalization
ChunkNothing ==
    /\ cpc = "start"
    /\ Normalize(cSrc) = <<>>
    /\ cpc' = "done"
    /\ UNCHANGED <<cSrc, cMax, cOverlap, cParts, cCur, cChunks, reqVars, filterVars>>

\* lines 71-77
ChunkSplit ==
    /\ cpc = "start"
    /\ Normalize(cSrc) # <<>>
    /\ cParts' = SplitParts(Normalize(cSrc))
    /\ cpc' = "loop"
    /\ UNCHANGED <<cSrc, cMax, cOverlap, cCur, cChunks, reqVars, filterVars>>

piece == Trim(Head(cParts))

\* (cur + ' ' + piece).length <= maxChars
Fits == Len(cCur) + 1 + Len(piece) <= cMax

\* line 81: an empty part is skipped
ChunkSkip ==
    /\ cpc = "loop"
    /\ cParts # <<>>
    /\ piece = <<>>
    /\ cParts' = Tail(cParts)
    /\ UNCHANGED <<cpc, cSrc, cMax, cOverlap, cCur, cChunks, reqVars, filterVars>>

\* lines 82-83
ChunkAppend ==
    /\ cpc = "loop"
    /\ cParts # <<>>
    /\ piece # <<>>
    /\ Fits
    /\ cCur' = IF cCur # <<>> THEN cCur \o <<" ">> \o piece ELSE piece
    /\ cParts' = Tail(cParts)
    /\ UNCHANGED <<cpc, cSrc, cMax, cOverlap, cChunks, reqVars, filterVars>>

\* lines 85-88: the current chunk is closed and its tail seeds the next one
ChunkClose ==
    /\ cpc = "loop"
    /\ cParts # <<>>
    /\ piece # <<>>
    /\ ~Fits
    /\ cCur # <<>>
    /\ cChunks' = Append(cChunks, cCur)
    /\ cCur' = WithTail(SliceLast(cCur, cOverlap), piece)
    /\ cParts' = Tail(cParts)
    /\ UNCHANGED <<cpc, cSrc, cMax, cOverlap, reqVars, filterVars>>

\* lines 89-101: a piece that does not fit an empty current chunk
ChunkHardSplit ==
    /\ cpc = "loop"
    /\ cParts # <<>>
    /\ piece # <<>>
    /\ ~Fits
    /\ cCur = <<>>
    /\ cChunks' = HardSplit(cChunks, piece, 0, cMax, cOverlap)
    /\ cCur' = <<>>
    /\ cParts' = Tail(cParts)
    /\ UNCHANGED <<cpc, cSrc, cMax, cOverlap, reqVars, filterVars>>

\* lines 104-105
ChunkReturn ==
    /\ cpc = "loop"
    /\ cParts = <<>>
    /\ cChunks' = IF cCur # <<>> THEN Append(cChunks, cCur) ELSE cChunks
    /\ cpc' = "done"
    /\ UNCHANGED <<cSrc, cMax, cOverlap, cParts, cCur, reqVars, filterVars>>

NextChunk ==
    \/ ChunkNothing
    \/ ChunkSplit
    \/ ChunkSkip
    \/ ChunkAppend
    \/ ChunkClose
    \/ ChunkHardSplit
    \/ ChunkReturn

SpecChunk == InitChunk /\ [][NextChunk]_vars

(***************************************************************************)
(* Properties of the chunker                                               *)
(***************************************************************************)
\* the atomic segments of the input: the trimmed non-empty parts
RECURSIVE NonEmptyTrimmed(_)
NonEmptyTrimmed(parts) ==
    IF parts = <<>> THEN <<>>
    ELSE IF Trim(Head(parts)) = <<>> THEN NonEmptyTrimmed(Tail(parts))
    ELSE <<Trim(Head(parts))>> \o NonEmptyTrimmed(Tail(parts))

Segments(src) == NonEmptyTrimmed(SplitParts(Normalize(src)))

NoOversizedSegment ==
    \A i \in 1..Len(Segments(cSrc)) : Len(Segments(cSrc)[i]) <= cMax

\* C9: every chunk returned, its overlap prefix included, is at most
\* maxChars long unless some segment of the input is itself longer than
\* maxChars.
C9_ChunksWithinMax ==
    (cpc = "done" /\ NoOversizedSegment) =>
        \A i \in 1..Len(cChunks) : Len(cChunks[i]) <= cMax

IsPrefix(pre, s) == Len(pre) <= Len(s) /\ SubSeq(s, 1, Len(pre)) = pre

\* a chunk without the overlap prefix taken from the previous chunk's tail
WithoutOverlap(prev, chunk) ==
    LET pre == IF cOverlap = 0 THEN <<>> ELSE SliceLast(prev, cOverlap) \o <<" ">>
    IN IF IsPrefix(pre, chunk) THEN Drop(chunk, Len(pre)) ELSE chunk

RECURSIVE Remainders(_, _)
Remainders(chunks, i) ==
    IF i > Len(chunks) THEN <<>>
    ELSE (IF i = 1 THEN chunks[1] ELSE WithoutOverlap(chunks[i - 1], chunks[i]))
         \o Remainders(chunks, i + 1)

\* C10: the chunks, each after the first without its overlap prefix,
\* concatenate to the whitespace-normalized source text.
C10_ChunksReproduceText ==
    cpc = "done" => Remainders(cChunks, 1) = Normalize(cSrc)

\* "a. A" chunked with maxChars 2 and overlap 1: two chunks, the second one
\* longer than maxChars, and the period is gone
ChunkExample ==
    /\ cpc = "done"
    /\ cSrc = <<"a", ".", " ", "A">>
    /\ cMax = 2
    /\ cOverlap = 1
    /\ cChunks = << <<"a">>, <<"a", " ", "A">> >>

\* "a. A" chunked with maxChars 5: one chunk "a A"
ChunkExampleSingle ==
    /\ cpc = "done"
    /\ cSrc = <<"a", ".", " ", "A">>
    /\ cMax = 5
    /\ cChunks = << <<"a", " ", "A">> >>

\* C11: an input that is empty after normalization gives no chunk, and a
\* non-empty normalized input shorter than maxChars gives exactly one chunk,
\* equal to the normalized input.
C11_EmptyOrSingleChunk ==
    cpc = "done" =>
        /\ Normalize(cSrc) = <<>> => cChunks = <<>>
        /\ (Normalize(cSrc) # <<>> /\ Len(Normalize(cSrc)) < cMax) =>
              cChunks = <<Normalize(cSrc)>>

\* what does hold of such inputs: one chunk, the segments joined by a space
SingleChunkOfSegments ==
    cpc = "done" =>
        /\ Normalize(cSrc) = <<>> => cChunks = <<>>
        /\ (Normalize(cSrc) # <<>> /\ Len(Normalize(cSrc)) < cMax) =>
              cChunks = <<JoinSpace(Segments(cSrc))>>

\* the distinct non-empty trimmed texts of the candidates without an
\* administrative token
ValidTexts ==
    { KeyOf(allQuestions[i]) :
        i \in { j \in 1..Len(allQuestions) : ~isAdminQuestion(allQuestions[j]) } } \ {<<>>}

\* C12: with U distinct non-empty trimmed texts among the candidates without
\* administrative token, a returned result has exactly min(desiredTotal, U)
\* questions, each of them one of the accumulated candidates, unmodified.
C12_ExactCount ==
    response.status = 200 =>
        /\ Len(response.questions) =
              Min(Min(requestedCount.n, QUESTION_CAP), Cardinality(ValidTexts))
        /\ \A i \in 1..Len(response.questions) :
              \E j \in 1..Len(allQuestions) : allQuestions[j] = response.questions[i]

\* three unique valid candidates, fewer than the cap, were all returned
C12_Witness ==
    /\ response.status = 200
    /\ Cardinality(ValidTexts) = 3
    /\ Len(allQuestions) > 3
    /\ Len(response.questions) = 3

\* the configured maximum chunk count N
ChunkLimit == IF envMaxChunks >= 1 THEN envMaxChunks ELSE 1

FirstCallsBefore(i) == { j \in 1..(i - 1) : ~callLog[j].retry }

\* C13: model calls are issued only for the first N chunks, in document
\* order and one at a time: a call is issued only when every earlier call
\* has completed and the earlier chunks were collected, no chunk after the
\* N-th is called, and a request issues at most N calls plus one retry.
C13_FirstNChunksInOrder ==
    /\ Len(callLog) <= ChunkLimit + 1
    /\ \A i \in 1..Len(callLog) :
         /\ callLog[i].chunk >= 1
         /\ callLog[i].chunk <= ChunkLimit
         /\ callLog[i].chunk <= numChunks
         /\ ~callLog[i].retry => callLog[i].chunk = Cardinality(FirstCallsBefore(i)) + 1
         /\ i < Len(callLog) => callLog[i].outcome # "pending"
         /\ callLog[i].outcome = "ok" => idx >= callLog[i].chunk
         /\ callLog[i].outcome = "pending" => idx = callLog[i].chunk - 1

\* the document had more chunks than N; N calls and the retry were issued
\* and the request succeeded
C13_Witness ==
    /\ response.status = 200
    /\ numChunks > ChunkLimit
    /\ Len(callLog) = ChunkLimit + 1
    /\ idx = ChunkLimit

\* the step at hand visits a segment that is longer than maxChars
OversizedNext == cpc = "loop" /\ cParts # <<>> /\ Len(piece) > cMax

\* number of pieces of a hard split of a segment of length n
PieceCount(n) == (n + cMax - 1) \div cMax

\* chunk is the k-th piece of a hard split of seg, after the chunk prev when
\* there is one (hasPrev)
IsHardPiece(chunk, seg, k, hasPrev, prev) ==
    LET slice == SliceFrom(seg, (k - 1) * cMax, cMax)
    IN IF hasPrev /\ cOverlap > 0
       THEN chunk = SliceLast(prev, cOverlap) \o <<" ">> \o slice
       ELSE chunk = slice

\* the chunks from position from on are the hard-split pieces of seg
HardPiecesFrom(chunks, from, seg) ==
    /\ Len(chunks) = from - 1 + PieceCount(Len(seg))
    /\ \A k \in 1..PieceCount(Len(seg)) :
          IsHardPiece(chunks[from - 1 + k], seg, k,
                      from - 1 + k > 1,
                      IF from - 1 + k > 1 THEN chunks[from - 2 + k] ELSE <<>>)

\* C14: a segment longer than maxChars is hard-split into pieces of at most
\* maxChars of its characters, whether the current chunk is empty or holds
\* earlier segments (which are then closed first), and each piece that
\* follows a chunk starts with that chunk's trailing overlap characters.
C14_OversizedIsHardSplit ==
    [][OversizedNext =>
          /\ cCur' = <<>>
          /\ IF cCur = <<>>
             THEN HardPiecesFrom(cChunks', Len(cChunks) + 1, piece)
             ELSE /\ Len(cChunks') > Len(cChunks)
                  /\ cChunks'[Len(cChunks) + 1] = cCur
                  /\ HardPiecesFrom(cChunks', Len(cChunks) + 2, piece)]_vars

\* the same for a segment met with an empty current chunk only
HardSplitWhenCurEmpty ==
    [][(OversizedNext /\ cCur = <<>>) =>
          /\ cCur' = <<>>
          /\ HardPiecesFrom(cChunks', Len(cChunks) + 1, piece)]_vars

\* s contains an administrative token, case-insensitively
HasToken(s) == \E t \in BANNED_TOKENS_IN_STEM : Includes(ToLower(s), t)

TokenInEntry(q) ==
    \/ HasToken(q.question.s)
    \/ \E k \in 1..Len(q.options.a) : HasToken(q.options.a[k])

\* C15: no returned question contains an administrative token, in any
\* letter case, in its question text or in one of its options.
C15_NoAdminInResult ==
    response.status = 200 =>
        \A i \in 1..Len(response.questions) : ~TokenInEntry(response.questions[i])

\* candidates with a token in the text and in an option were collected and
\* other candidates were returned
C15_Witness ==
    /\ response.status = 200
    /\ response.questions # <<>>
    /\ \E j \in 1..Len(allQuestions) : HasToken(allQuestions[j].question.s)
    /\ \E j \in 1..Len(allQuestions) :
          /\ ~HasToken(allQuestions[j].question.s)
          /\ TokenInEntry(allQuestions[j])

(***************************************************************************)
(* stripAdministrativeSections, lines 53-65: the collapse of repeated      *)
(* header/footer lines.  The loop is stepped one line of                   *)
(* filtered.split('\n') per action; the line is drawn from the lines the   *)
(* document is made of.  The two earlier steps of the function only remove *)
(* lines, so any sequence of lines without a banned pattern reaches the    *)
(* loop.                                                                   *)
(***************************************************************************)
\* number of lines of a document
MaxLines == 12

\* if ((counts.get(k) || 0) > 10) continue
REPEAT_LIMIT == 10
\* trimmed.length <= 80
SHORT_LINE_MAX == 80

RECURSIVE Rep(_, _)
Rep(c, n) == IF n = 0 THEN <<>> ELSE <<c>> \o Rep(c, n - 1)

\* lines of a document: a running header and the same header with other
\* case and indentation, a body line, a blank line, a line of exactly 80
\* characters and one of 81
hdr      == <<"A", "c", "m", "e">>
hdrVar   == <<" ", "a", "C", "M", "E", " ">>
bodyLine == <<"z">>
blankLine == <<" ">>
edgeLine == Rep("y", SHORT_LINE_MAX)
longLine == Rep("x", SHORT_LINE_MAX + 1)

LineAlphabets ==
    { {hdr, hdrVar}, {hdr, bodyLine}, {hdr, longLine}, {edgeLine, blankLine} }

\* trimmed.length > 0 && trimmed.length <= 80
Counted(trimmed) == Len(trimmed) > 0 /\ Len(trimmed) <= SHORT_LINE_MAX

\* counts.get(k) || 0
CountOf(m, k) == IF k \in DOMAIN m THEN m[k] ELSE 0

\* counts.set(k, (counts.get(k) || 0) + 1)
CountSet(m, k) ==
    [x \in (DOMAIN m) \cup {k} |-> IF x = k THEN CountOf(m, k) + 1 ELSE m[x]]

TooFrequent_OffByOne(n) == n >= REPEAT_LIMIT

\* (counts.get(k) || 0) > 10
TooFrequent(n) == n > REPEAT_LIMIT

InitFilter ==
    /\ ReqIdle
    /\ ChunkIdle
    /\ fpc = "loop"
    /\ fLines \in LineAlphabets
    /\ fIn = <<>>
    /\ counts = EmptyMap
    /\ kept = <<>>
    /\ keptIdx = {}

\* the loop takes its next line
Visit(line) ==
    /\ fpc = "loop"
    /\ Len(fIn) < MaxLines
    /\ fIn' = Append(fIn, line)

KeepCounted(line, k) ==
    /\ Visit(line)
    /\ ~TooFrequent(CountOf(counts, k) + 1)
    /\ counts' = CountSet(counts, k)
    /\ kept' = Append(kept, line)
    /\ keptIdx' = keptIdx \cup {Len(fIn) + 1}
    /\ UNCHANGED <<fpc, fLines, reqVars, chunkVars>>

DropCounted(line, k) ==
    /\ Visit(line)
    /\ TooFrequent(CountOf(counts, k) + 1)
    /\ counts' = CountSet(counts, k)
    /\ UNCHANGED <<fpc, fLines, kept, keptIdx, reqVars, chunkVars>>

\* lines 58-62 and 63: a short non-blank line is counted, and kept while
\* its count is within the limit
FilterKeepCounted ==
    \E line \in fLines :
        /\ Counted(Trim(line))
        /\ KeepCounted(line, ToLower(Trim(line)))

\* lines 58-61: a short non-blank line over the limit hits the continue
FilterDrop ==
    \E line \in fLines :
        /\ Counted(Trim(line))
        /\ DropCounted(line, ToLower(Trim(line)))

\* lines 58 and 63: a blank or long line is kept without being counted
FilterKeepUncounted ==
    \E line \in fLines :
        /\ ~Counted(Trim(line))
        /\ Visit(line)
        /\ kept' = Append(kept, line)
        /\ keptIdx' = keptIdx \cup {Len(fIn) + 1}
        /\ UNCHANGED <<fLines, fpc, counts, reqVars, chunkVars>>

\* line 65: return kept.join('\n'); the lines of the result are kept's.
\* split always yields at least one line.
FilterReturn ==
    /\ fpc = "loop"
    /\ Len(fIn) >= 1
    /\ fpc' = "done"
    /\ UNCHANGED <<fLines, fIn, counts, kept, keptIdx, reqVars, chunkVars>>

NextFilter ==
    \/ FilterKeepCounted
    \/ FilterDrop
    \/ FilterKeepUncounted
    \/ FilterReturn

SpecFilter == InitFilter /\ [][NextFilter]_vars

\* the comparison keys of a sequence of lines: trimmed, lower case
RECURSIVE LineKeys(_)
LineKeys(s) ==
    IF s = <<>> THEN <<>> ELSE <<ToLower(Trim(Head(s)))>> \o LineKeys(Tail(s))

\* how many of the first i lines have the key of line i
SeenUpTo(keys, i) == Cardinality({ j \in 1..i : keys[j] = keys[i] })

\* the lines of s at the positions of idxs, in order, from position i on
RECURSIVE PickLines(_, _, _)
PickLines(s, idxs, i) ==
    IF i > Len(s) THEN <<>>
    ELSE (IF i \in idxs THEN <<s[i]>> ELSE <<>>) \o PickLines(s, idxs, i + 1)

FirstTenOfEveryLine(keys) ==
    \A i \in 1..Len(keys) : (i \in keptIdx) <=> (SeenUpTo(keys, i) <= 10)

FirstTenOfShortLines(keys) ==
    \A i \in 1..Len(keys) :
        (i \in keptIdx) <=>
            \/ keys[i] = <<>>
            \/ Len(keys[i]) > 80
            \/ SeenUpTo(keys, i) <= 10

\* C16 as stated: the output of the repeated-line step consists of exactly
\* the first 10 occurrences (compared trimmed, case-insensitively) of every
\* input line, in document order; every later occurrence is dropped and no
\* line occurring 10 times or fewer is removed.
C16_RepeatedLineAtMostTen ==
    fpc = "done" =>
        /\ FirstTenOfEveryLine(LineKeys(fIn))
        /\ kept = PickLines(fIn, keptIdx, 1)

\* C16 amended: the rule applies to the non-blank lines whose trimmed length
\* is at most 80: of those the first 10 occurrences (compared trimmed,
\* case-insensitively) are kept and every later one is dropped; blank lines
\* and lines longer than 80 characters are all kept, in document order.
C16_ShortLineAtMostTen ==
    fpc = "done" =>
        /\ FirstTenOfShortLines(LineKeys(fIn))
        /\ kept = PickLines(fIn, keptIdx, 1)

\* a header in two spellings seen more than 10 times: 10 are in the output
C16_Witness ==
    /\ fpc = "done"
    /\ fLines = {hdr, hdrVar}
    /\ Len(fIn) > 10
    /\ \E i \in 1..10 : fIn[i] = hdr
    /\ \E i \in 1..10 : fIn[i] = hdrVar
    /\ Len(kept) = 10
    /\ kept = SubSeq(fIn, 1, 10)

\* the positions of the request's calls whose model differs from that of
\* the call before
ModelChanges ==
    { i \in 2..Len(callLog) : callLog[i].model # callLog[i - 1].model }

\* C17: every model call of a request uses an identifier of the allowlist:
\* the first call uses the requested identifier if it is allowlisted and
\* gpt-4o-mini otherwise; the identifier changes at most once, only on the
\* fallback retry after an access-forbidden failure and only to gpt-4o-mini;
\* every call after the retry uses gpt-4o-mini, and a success response
\* reports as modelUsed the identifier of the last call.
C17_ModelInUse ==
    /\ \A i \in 1..Len(callLog) :
         callLog[i].model \in {"gpt-5-mini", "gpt-4o-mini", "o4-mini"}
    /\ callLog # <<>> =>
         callLog[1].model =
            IF requestedModel \in {"gpt-5-mini", "gpt-4o-mini", "o4-mini"}
            THEN requestedModel ELSE "gpt-4o-mini"
    /\ Cardinality(ModelChanges) <= 1
    /\ \A i \in ModelChanges :
         /\ callLog[i].retry
         /\ callLog[i - 1].outcome = "accessForbidden"
         /\ callLog[i].model = "gpt-4o-mini"
    /\ \A i \in 1..Len(callLog) : \A j \in i..Len(callLog) :
         callLog[i].retry => callLog[j].model = "gpt-4o-mini"
    /\ (pc = "done" /\ response.status = 200 /\ callLog # <<>>) =>
         response.modelUsed = callLog[Len(callLog)].model

\* a request for o4-mini falls back on its first chunk, processes a later
\* chunk with the fallback model and succeeds
C17_Witness ==
    /\ pc = "done"
    /\ response.status = 200
    /\ requestedModel = "o4-mini"
    /\ Len(callLog) >= 3
    /\ callLog[1].model = "o4-mini"
    /\ callLog[2].retry
    /\ callLog[3].chunk = 2
    /\ callLog[3].model = "gpt-4o-mini"
    /\ response.modelUsed = "gpt-4o-mini"

====
